---- MODULE Spec2Model ----
(***************************************************************************)
(* Door monitor (src/src/monitor.rs): the polling loop of DoorMonitor::run *)
(* and the handlers that turn door samples into notifications.             *)
(*                                                                         *)
(* Time is a clock in whole seconds.  Instant::now() reads the clock,      *)
(* t.elapsed() is now - t, and the clock advances in sleep(check_interval) *)
(* only: network calls take no time in this model.                         *)
(* Option<T> is a sequence: None is <<>>, Some(x) is <<x>>.                *)
(***************************************************************************)
EXTENDS Integers, Sequences, FiniteSets

VARIABLES
    args,            \* config::Args, fixed at start-up
    state,           \* DoorMonitor.state : MonitorState
    now,             \* the clock, in seconds
    pc,              \* position of run(): "startup", "poll" or "sleep"
    ticks,           \* sleeps taken so far
    ops,             \* what the latest step did, in program order
    episode_alerts,  \* open-too-long messages since the door was last seen to open
    episode_due,     \* some check since then saw time_open >= warning_threshold
    prev_alerts,     \* open-too-long messages of the open episode before this one
    recording,       \* whether samples and log are kept
    samples,         \* successful polls so far: <<sample, time, pc of the poll>>
    log,             \* messages so far: <<kind, time, backoff index>>
    input,           \* argument of a function called on its own (door, utils, sms, telegram)
    output           \* what that call returned and did

vars == <<args, state, now, pc, ticks, ops, episode_alerts, episode_due,
          prev_alerts, recording, samples, log, input, output>>

(* Bounds *)
MaxTicks == 8

(* Configurations explored *)
CheckIntervals == {5, 120, 1800}
Thresholds == {0, 15}

None == <<>>
Some(x) == <<x>>
IsSome(o) == o # None
Unwrap(o) == o[1]

(* door_status.state: true is closed, false is open *)
Closed == TRUE
Open == FALSE

(* Outcomes of the two sends of one message: TRUE is Ok, FALSE is Err *)
Outcomes == [sms : BOOLEAN, telegram : BOOLEAN]

ArgsSet == [check_interval_seconds : CheckIntervals,
            open_too_long_seconds : Thresholds,
            no_sms_backoff : BOOLEAN,
            sms_off : BOOLEAN,
            telegram_off : BOOLEAN]

sms_backoff(a) == ~a.no_sms_backoff

MonitorStateNew ==
    [door_opened_time |-> None,
     door_closed_time |-> None,
     last_door_state |-> None,
     sms_sent |-> FALSE,
     sms_backoff_index |-> 0,
     last_sms_time |-> None]

(* One entry of ops *)
Op(o, w, i, d, k) == [op |-> o, what |-> w, idx |-> i, dur |-> d, ok |-> k]

(* A handler context: the monitor state and the operations done so far *)
Ctx(s) == [state |-> s, ops |-> <<>>]

Do(c, o) == [c EXCEPT !.ops = Append(@, o)]

Write(c, field, value) ==
    [c EXCEPT !.state[field] = value,
              !.ops = Append(@, Op("write", field, 0, 0, TRUE))]

(* Dispatch that gives up on the message when the SMS send fails *)
Dispatch_stop_on_error(c, a, what, idx, dur, r) ==
    LET c1 == Do(c, Op("message", what, idx, dur, TRUE))
        c2 == IF ~a.sms_off
              THEN Do(c1, Op("send_sms", what, idx, dur, r.sms))
              ELSE c1
        c3 == IF ~a.telegram_off /\ (a.sms_off \/ r.sms)
              THEN Do(c2, Op("send_telegram", what, idx, dur, r.telegram))
              ELSE c2
    IN c3

(* Dispatch in which sms_off turns off the Telegram send as well *)
Dispatch_sms_off_is_all_off(c, a, what, idx, dur, r) ==
    LET c1 == Do(c, Op("message", what, idx, dur, TRUE))
        c2 == IF ~a.sms_off
              THEN Do(c1, Op("send_sms", what, idx, dur, r.sms))
              ELSE c1
        c3 == IF ~a.telegram_off /\ ~a.sms_off
              THEN Do(c2, Op("send_telegram", what, idx, dur, r.telegram))
              ELSE c2
    IN c3

(* Dispatch that tries Telegram before SMS *)
Dispatch_telegram_first(c, a, what, idx, dur, r) ==
    LET c1 == Do(c, Op("message", what, idx, dur, TRUE))
        c2 == IF ~a.telegram_off
              THEN Do(c1, Op("send_telegram", what, idx, dur, r.telegram))
              ELSE c1
        c3 == IF ~a.sms_off
              THEN Do(c2, Op("send_sms", what, idx, dur, r.sms))
              ELSE c2
    IN c3

(* format!(...) of a message, then one send per channel that is not off *)
Dispatch(c, a, what, idx, dur, r) ==
    LET c1 == Do(c, Op("message", what, idx, dur, TRUE))
        c2 == IF ~a.sms_off
              THEN Do(c1, Op("send_sms", what, idx, dur, r.sms))
              ELSE c1
        c3 == IF ~a.telegram_off
              THEN Do(c2, Op("send_telegram", what, idx, dur, r.telegram))
              ELSE c2
    IN c3

(* reset_sms_state that starts the whole state over *)
reset_sms_state_everything(c) ==
    LET c1 == Write(Write(Write(c, "sms_sent", FALSE),
                          "sms_backoff_index", 0),
                    "last_sms_time", None)
        c2 == Write(c1, "door_opened_time", None)
        c3 == Write(c2, "door_closed_time", None)
    IN Write(c3, "last_door_state", None)

(* reset_sms_state that keeps the time of the last message *)
reset_sms_state_keep_time(c) ==
    Write(Write(c, "sms_sent", FALSE), "sms_backoff_index", 0)

(* reset_sms_state that keeps sms_sent *)
reset_sms_state_keep_sent(c) ==
    Write(Write(c, "sms_backoff_index", 0), "last_sms_time", None)

reset_sms_state(c) ==
    Write(Write(Write(c, "sms_sent", FALSE),
                "sms_backoff_index", 0),
          "last_sms_time", None)

sms_intervals == <<5 * 60, 15 * 60, 30 * 60, 60 * 60>>

(* should_send_message that repeats every 30 minutes beyond the list *)
should_send_message_half_hour(s, t) ==
    IF ~s.sms_sent
    THEN TRUE
    ELSE IF IsSome(s.last_sms_time)
         THEN LET next_interval ==
                      IF s.sms_backoff_index < Len(sms_intervals)
                      THEN sms_intervals[s.sms_backoff_index + 1]
                      ELSE 30 * 60
              IN t - Unwrap(s.last_sms_time) >= next_interval
         ELSE FALSE

(* should_send_message that sends when the time of the last send is missing *)
should_send_message_on_missing(s, t) ==
    IF ~s.sms_sent
    THEN TRUE
    ELSE IF IsSome(s.last_sms_time)
         THEN LET next_interval ==
                      IF s.sms_backoff_index < Len(sms_intervals)
                      THEN sms_intervals[s.sms_backoff_index + 1]
                      ELSE 60 * 60
              IN t - Unwrap(s.last_sms_time) >= next_interval
         ELSE TRUE

(* should_send_message with a strict comparison against the interval *)
should_send_message_strict(s, t) ==
    IF ~s.sms_sent
    THEN TRUE
    ELSE IF IsSome(s.last_sms_time)
         THEN LET next_interval ==
                      IF s.sms_backoff_index < Len(sms_intervals)
                      THEN sms_intervals[s.sms_backoff_index + 1]
                      ELSE 60 * 60
              IN t - Unwrap(s.last_sms_time) > next_interval
         ELSE FALSE

(* should_send_message that stops once the list of intervals is used up *)
should_send_message_stop_after_list(s, t) ==
    IF ~s.sms_sent
    THEN TRUE
    ELSE IF IsSome(s.last_sms_time)
         THEN IF s.sms_backoff_index < Len(sms_intervals)
              THEN t - Unwrap(s.last_sms_time) >= sms_intervals[s.sms_backoff_index + 1]
              ELSE FALSE
         ELSE FALSE

should_send_message(s, t) ==
    IF ~s.sms_sent
    THEN TRUE
    ELSE IF IsSome(s.last_sms_time)
         THEN LET next_interval ==
                      IF s.sms_backoff_index < Len(sms_intervals)
                      THEN sms_intervals[s.sms_backoff_index + 1]
                      ELSE 60 * 60
              IN t - Unwrap(s.last_sms_time) >= next_interval
         ELSE FALSE

(* handle_sms_with_backoff that forgets to advance the index *)
handle_sms_with_backoff_no_increment(c, a, time_open, t, r) ==
    IF should_send_message(c.state, t)
    THEN LET text == IF ~c.state.sms_sent THEN "ALERT" ELSE "REMINDER"
             c1 == Dispatch(c, a, text, c.state.sms_backoff_index, time_open, r)
             c2 == Write(c1, "sms_sent", TRUE)
         IN Write(c2, "last_sms_time", Some(t))
    ELSE c

(* handle_sms_with_backoff that forgets to record the time of the send *)
handle_sms_with_backoff_no_time(c, a, time_open, t, r) ==
    IF should_send_message(c.state, t)
    THEN LET text == IF ~c.state.sms_sent THEN "ALERT" ELSE "REMINDER"
             c1 == Dispatch(c, a, text, c.state.sms_backoff_index, time_open, r)
             c2 == Write(c1, "sms_sent", TRUE)
         IN Write(c2, "sms_backoff_index", c2.state.sms_backoff_index + 1)
    ELSE c

(* handle_sms_with_backoff that words every message as the first alert *)
handle_sms_with_backoff_always_alert(c, a, time_open, t, r) ==
    IF should_send_message(c.state, t)
    THEN LET c1 == Dispatch(c, a, "ALERT", c.state.sms_backoff_index, time_open, r)
             c2 == Write(c1, "sms_sent", TRUE)
             c3 == Write(c2, "last_sms_time", Some(t))
         IN Write(c3, "sms_backoff_index", c3.state.sms_backoff_index + 1)
    ELSE c

(* handle_sms_with_backoff that advances the index on reminders only, so   *)
(* the first reminder waits for the first interval of the list             *)
handle_sms_with_backoff_index_from_reminder(c, a, time_open, t, r) ==
    IF should_send_message(c.state, t)
    THEN LET first == ~c.state.sms_sent
             text == IF first THEN "ALERT" ELSE "REMINDER"
             c1 == Dispatch(c, a, text, c.state.sms_backoff_index, time_open, r)
             c2 == Write(c1, "sms_sent", TRUE)
             c3 == Write(c2, "last_sms_time", Some(t))
         IN IF first THEN c3
            ELSE Write(c3, "sms_backoff_index", c3.state.sms_backoff_index + 1)
    ELSE c

(* handle_sms_with_backoff that counts a message only when a send of it    *)
(* succeeded                                                               *)
handle_sms_with_backoff_only_if_delivered(c, a, time_open, t, r) ==
    IF should_send_message(c.state, t)
    THEN LET text == IF ~c.state.sms_sent THEN "ALERT" ELSE "REMINDER"
             c1 == Dispatch(c, a, text, c.state.sms_backoff_index, time_open, r)
             delivered == (~a.sms_off /\ r.sms) \/ (~a.telegram_off /\ r.telegram)
         IN IF delivered
            THEN LET c2 == Write(c1, "sms_sent", TRUE)
                     c3 == Write(c2, "last_sms_time", Some(t))
                 IN Write(c3, "sms_backoff_index", c3.state.sms_backoff_index + 1)
            ELSE c1
    ELSE c

handle_sms_with_backoff(c, a, time_open, t, r) ==
    IF should_send_message(c.state, t)
    THEN LET text == IF ~c.state.sms_sent THEN "ALERT" ELSE "REMINDER"
             c1 == Dispatch(c, a, text, c.state.sms_backoff_index, time_open, r)
             c2 == Write(c1, "sms_sent", TRUE)
             c3 == Write(c2, "last_sms_time", Some(t))
         IN Write(c3, "sms_backoff_index", c3.state.sms_backoff_index + 1)
    ELSE c

(* handle_single_sms that forgets to set sms_sent *)
handle_single_sms_no_flag(c, a, time_open, t, r) ==
    IF ~c.state.sms_sent
    THEN Dispatch(c, a, "ALERT", c.state.sms_backoff_index, time_open, r)
    ELSE c

(* handle_single_sms that records the time of the alert as well *)
handle_single_sms_with_time(c, a, time_open, t, r) ==
    IF ~c.state.sms_sent
    THEN LET c1 == Dispatch(c, a, "ALERT", c.state.sms_backoff_index, time_open, r)
             c2 == Write(c1, "sms_sent", TRUE)
         IN Write(c2, "last_sms_time", Some(t))
    ELSE c

handle_single_sms(c, a, time_open, t, r) ==
    IF ~c.state.sms_sent
    THEN LET c1 == Dispatch(c, a, "ALERT", c.state.sms_backoff_index, time_open, r)
         IN Write(c1, "sms_sent", TRUE)
    ELSE c

(* handle_door_open_too_long that ignores the threshold *)
handle_door_open_too_long_no_threshold(c, a, t, r) ==
    IF IsSome(c.state.door_opened_time)
    THEN LET time_open == t - Unwrap(c.state.door_opened_time)
             c1 == Do(c, Op("too_long", "log", 0, time_open, TRUE))
         IN IF sms_backoff(a)
            THEN handle_sms_with_backoff(c1, a, time_open, t, r)
            ELSE handle_single_sms(c1, a, time_open, t, r)
    ELSE c

(* handle_door_open_too_long with a strict comparison against the threshold *)
handle_door_open_too_long_strict(c, a, t, r) ==
    IF IsSome(c.state.door_opened_time)
    THEN LET time_open == t - Unwrap(c.state.door_opened_time)
         IN IF time_open > a.open_too_long_seconds
            THEN LET c1 == Do(c, Op("too_long", "log", 0, time_open, TRUE))
                 IN IF sms_backoff(a)
                    THEN handle_sms_with_backoff(c1, a, time_open, t, r)
                    ELSE handle_single_sms(c1, a, time_open, t, r)
            ELSE c
    ELSE c

handle_door_open_too_long(c, a, t, r) ==
    IF IsSome(c.state.door_opened_time)
    THEN LET time_open == t - Unwrap(c.state.door_opened_time)
         IN IF time_open >= a.open_too_long_seconds
            THEN LET c1 == Do(c, Op("too_long", "log", 0, time_open, TRUE))
                 IN IF sms_backoff(a)
                    THEN handle_sms_with_backoff(c1, a, time_open, t, r)
                    ELSE handle_single_sms(c1, a, time_open, t, r)
            ELSE c
    ELSE c

(* handle_door_state_change that sends nothing when the door opens *)
handle_door_state_change_silent_open(c, door_closed, a, t, r) ==
    IF door_closed
    THEN LET c1 == IF IsSome(c.state.door_opened_time)
                   THEN Dispatch(c, a, "DoorClosed", 0,
                                 t - Unwrap(c.state.door_opened_time), r)
                   ELSE c
             c2 == Write(c1, "door_opened_time", None)
             c3 == Write(c2, "door_closed_time", Some(t))
         IN reset_sms_state(c3)
    ELSE LET c2 == Write(c, "door_opened_time", Some(t))
         IN Write(c2, "door_closed_time", None)

(* handle_door_state_change that reports a close only after an alert *)
handle_door_state_change_close_if_sent(c, door_closed, a, t, r) ==
    IF door_closed
    THEN LET c1 == IF c.state.sms_sent /\ IsSome(c.state.door_opened_time)
                   THEN Dispatch(c, a, "DoorClosed", 0,
                                 t - Unwrap(c.state.door_opened_time), r)
                   ELSE c
             c2 == Write(c1, "door_opened_time", None)
             c3 == Write(c2, "door_closed_time", Some(t))
         IN reset_sms_state(c3)
    ELSE LET c1 == Dispatch(c, a, "DoorOpened", 0, 0, r)
             c2 == Write(c1, "door_opened_time", Some(t))
         IN Write(c2, "door_closed_time", None)

(* handle_door_state_change that keeps door_closed_time when the door opens *)
handle_door_state_change_keep_closed(c, door_closed, a, t, r) ==
    IF door_closed
    THEN LET c1 == IF IsSome(c.state.door_opened_time)
                   THEN Dispatch(c, a, "DoorClosed", 0,
                                 t - Unwrap(c.state.door_opened_time), r)
                   ELSE c
             c2 == Write(c1, "door_opened_time", None)
             c3 == Write(c2, "door_closed_time", Some(t))
         IN reset_sms_state(c3)
    ELSE LET c1 == Dispatch(c, a, "DoorOpened", 0, 0, r)
         IN Write(c1, "door_opened_time", Some(t))

(* handle_door_state_change that reports the start-up status when the      *)
(* state before the sample is unknown                                      *)
handle_door_state_change_status_on_unknown(c, door_closed, a, t, r) ==
    IF door_closed
    THEN LET c1 == IF IsSome(c.state.door_opened_time)
                   THEN Dispatch(c, a, "DoorClosed", 0,
                                 t - Unwrap(c.state.door_opened_time), r)
                   ELSE IF c.state.last_door_state = None
                        THEN Dispatch(c, a, "StartupStatus", 0, 0, r)
                        ELSE c
             c2 == Write(c1, "door_opened_time", None)
             c3 == Write(c2, "door_closed_time", Some(t))
         IN reset_sms_state(c3)
    ELSE LET c1 == IF c.state.last_door_state = None
                   THEN Dispatch(c, a, "StartupStatus", 0, 0, r)
                   ELSE Dispatch(c, a, "DoorOpened", 0, 0, r)
             c2 == Write(c1, "door_opened_time", Some(t))
         IN Write(c2, "door_closed_time", None)

handle_door_state_change(c, door_closed, a, t, r) ==
    IF door_closed
    THEN LET c1 == IF IsSome(c.state.door_opened_time)
                   THEN Dispatch(c, a, "DoorClosed", 0,
                                 t - Unwrap(c.state.door_opened_time), r)
                   ELSE c
             c2 == Write(c1, "door_opened_time", None)
             c3 == Write(c2, "door_closed_time", Some(t))
         IN reset_sms_state(c3)
    ELSE LET c1 == Dispatch(c, a, "DoorOpened", 0, 0, r)
             c2 == Write(c1, "door_opened_time", Some(t))
         IN Write(c2, "door_closed_time", None)

(* The branch taken at the comparison of last_door_state with the sample *)
Transition(last, door_closed) ==
    (IF last = None THEN "Unknown" ELSE IF Unwrap(last) THEN "Closed" ELSE "Open")
    \o "->" \o (IF door_closed THEN "Closed" ELSE "Open")

(* handle_door_status that forgets to record the sample after a change *)
handle_door_status_no_record(c, door_closed, a, t, r1, r2) ==
    LET c1 == IF c.state.last_door_state # Some(door_closed)
              THEN handle_door_state_change(
                       Do(c, Op("change",
                                Transition(c.state.last_door_state, door_closed),
                                0, 0, TRUE)),
                       door_closed, a, t, r1)
              ELSE c
    IN IF ~door_closed
       THEN handle_door_open_too_long(c1, a, t, r2)
       ELSE c1

(* handle_door_status that takes every sample for a change of state *)
handle_door_status_always_change(c, door_closed, a, t, r1, r2) ==
    LET c1 == Write(handle_door_state_change(
                        Do(c, Op("change",
                                 Transition(c.state.last_door_state, door_closed),
                                 0, 0, TRUE)),
                        door_closed, a, t, r1),
                    "last_door_state", Some(door_closed))
    IN IF ~door_closed
       THEN handle_door_open_too_long(c1, a, t, r2)
       ELSE c1

(* handle_door_status that leaves the open-too-long check of a tick that   *)
(* saw a change to the next tick                                           *)
handle_door_status_check_next_tick(c, door_closed, a, t, r1, r2) ==
    IF c.state.last_door_state # Some(door_closed)
    THEN Write(handle_door_state_change(
                   Do(c, Op("change",
                            Transition(c.state.last_door_state, door_closed),
                            0, 0, TRUE)),
                   door_closed, a, t, r1),
               "last_door_state", Some(door_closed))
    ELSE IF ~door_closed
         THEN handle_door_open_too_long(c, a, t, r2)
         ELSE c

(* r1 are the send outcomes of the transition message, r2 of the alert *)
handle_door_status(c, door_closed, a, t, r1, r2) ==
    LET c1 == IF c.state.last_door_state # Some(door_closed)
              THEN Write(handle_door_state_change(
                             Do(c, Op("change",
                                      Transition(c.state.last_door_state, door_closed),
                                      0, 0, TRUE)),
                             door_closed, a, t, r1),
                         "last_door_state", Some(door_closed))
              ELSE c
    IN IF ~door_closed
       THEN handle_door_open_too_long(c1, a, t, r2)
       ELSE c1

(* The Ok arm of the start-up poll that records the state but not the time *)
initial_status_no_times(c, door_closed, a, t, r) ==
    LET c1 == Dispatch(c, a, "StartupStatus", 0, 0, r)
    IN Write(c1, "last_door_state", Some(door_closed))

(* The Ok arm of the start-up poll in run() *)
initial_status(c, door_closed, a, t, r) ==
    LET c1 == Dispatch(c, a, "StartupStatus", 0, 0, r)
        c2 == IF door_closed
              THEN Write(c1, "door_closed_time", Some(t))
              ELSE Write(c1, "door_opened_time", Some(t))
    IN Write(c2, "last_door_state", Some(door_closed))

(* Bookkeeping over ops *)
Messages(o) == SelectSeq(o, LAMBDA e : e.op = "message")
IsAlert(e) == e.op = "message" /\ e.what \in {"ALERT", "REMINDER"}
CountWhat(o, w) == Len(SelectSeq(o, LAMBDA e : e.op = "message" /\ e.what = w))
CountAlerts(o) == Len(SelectSeq(o, IsAlert))
Wrote(o, f) == \E i \in DOMAIN o : o[i].op = "write" /\ o[i].what = f
SawTooLong(o) == \E i \in DOMAIN o : o[i].op = "too_long"
StartsEpisode(o, s) == Wrote(o, "door_opened_time") /\ IsSome(s.door_opened_time)

RECURSIVE LogOf(_, _)
LogOf(o, t) ==
    IF o = <<>> THEN <<>>
    ELSE <<<<o[1].what, t, o[1].idx>>>> \o LogOf(Tail(o), t)

(* What a step that ran c leaves behind in the monitor and its history *)
FinishRun(pollop, c, sampled) ==
    /\ state' = c.state
    /\ ops' = <<pollop>> \o c.ops
    /\ episode_alerts' = (IF StartsEpisode(c.ops, c.state) THEN 0 ELSE episode_alerts)
                         + CountAlerts(c.ops)
    /\ episode_due' = ((~StartsEpisode(c.ops, c.state) /\ episode_due)
                       \/ SawTooLong(c.ops))
    /\ prev_alerts' = IF StartsEpisode(c.ops, c.state)
                      THEN episode_alerts
                      ELSE prev_alerts
    /\ samples' = IF recording /\ sampled # None
                  THEN Append(samples, <<Unwrap(sampled), now, pc>>)
                  ELSE samples
    /\ log' = IF recording THEN log \o LogOf(Messages(c.ops), now) ELSE log

(* What a step that ran c leaves behind, apart from pc, now and ticks *)
Finish(pollop, c, sampled) ==
    /\ FinishRun(pollop, c, sampled)
    /\ UNCHANGED <<input, output>>

PollOp(door_closed) ==
    Op("poll", IF door_closed THEN "closed" ELSE "open", 0, 0, TRUE)
PollErr == Op("poll", "err", 0, 0, FALSE)

StartupPollOk ==
    /\ pc = "startup"
    /\ \E door_closed \in BOOLEAN, r \in Outcomes :
          Finish(PollOp(door_closed),
                 initial_status(Ctx(state), door_closed, args, now, r),
                 Some(door_closed))
    /\ pc' = "poll"
    /\ UNCHANGED <<args, now, ticks, recording>>

StartupPollErr ==
    /\ pc = "startup"
    /\ Finish(PollErr, Ctx(state), None)
    /\ pc' = "poll"
    /\ UNCHANGED <<args, now, ticks, recording>>

LoopPollOk ==
    /\ pc = "poll"
    /\ \E door_closed \in BOOLEAN, r1 \in Outcomes, r2 \in Outcomes :
          Finish(PollOp(door_closed),
                 handle_door_status(Ctx(state), door_closed, args, now, r1, r2),
                 Some(door_closed))
    /\ pc' = "sleep"
    /\ UNCHANGED <<args, now, ticks, recording>>

(* The Err arm of the loop that leaves the loop *)
LoopPollErr_break ==
    /\ pc = "poll"
    /\ Finish(PollErr, Ctx(state), None)
    /\ pc' = "exit"
    /\ UNCHANGED <<args, now, ticks, recording>>

(* The Err arm of the loop that goes straight to the next poll *)
LoopPollErr_continue ==
    /\ pc = "poll"
    /\ Finish(PollErr, Ctx(state), None)
    /\ pc' = "poll"
    /\ UNCHANGED <<args, now, ticks, recording>>

(* The Err arm of the loop that starts over from an empty state *)
LoopPollErr_reset ==
    /\ pc = "poll"
    /\ Finish(PollErr, reset_sms_state(Ctx(state)), None)
    /\ pc' = "sleep"
    /\ UNCHANGED <<args, now, ticks, recording>>

LoopPollErr ==
    /\ pc = "poll"
    /\ Finish(PollErr, Ctx(state), None)
    /\ pc' = "sleep"
    /\ UNCHANGED <<args, now, ticks, recording>>

Sleep ==
    /\ pc = "sleep"
    /\ ticks < MaxTicks
    /\ now' = now + args.check_interval_seconds
    /\ ticks' = ticks + 1
    /\ pc' = "poll"
    /\ ops' = <<Op("sleep", "check_interval", 0, args.check_interval_seconds, TRUE)>>
    /\ UNCHANGED <<args, state, episode_alerts, episode_due, prev_alerts,
                   recording, samples, log, input, output>>

Next ==
    \/ StartupPollOk
    \/ StartupPollErr
    \/ LoopPollOk
    \/ LoopPollErr
    \/ Sleep

InitCommon ==
    /\ state = MonitorStateNew
    /\ now = 0
    /\ pc = "startup"
    /\ ticks = 0
    /\ ops = <<>>
    /\ episode_alerts = 0
    /\ episode_due = FALSE
    /\ prev_alerts = 0
    /\ samples = <<>>
    /\ log = <<>>
    /\ input = <<>>
    /\ output = <<>>

Init ==
    /\ args \in ArgsSet
    /\ recording = FALSE
    /\ InitCommon

Spec == Init /\ [][Next]_vars

(* The scenario runs: defaults of config.rs (5 s interval, 15 s threshold, *)
(* progressive backoff), with the samples and messages kept.               *)
InitScenario ==
    /\ args \in {a \in ArgsSet : /\ a.check_interval_seconds = 5
                                 /\ a.open_too_long_seconds = 15
                                 /\ ~a.no_sms_backoff}
    /\ recording = TRUE
    /\ InitCommon

SpecScenario == InitScenario /\ [][Next]_vars

(* Runs long enough for reminders: a 30 minute interval, no threshold and  *)
(* progressive backoff, with the samples and messages kept.                *)
InitHistory ==
    /\ args \in {a \in ArgsSet : /\ a.check_interval_seconds = 1800
                                 /\ a.open_too_long_seconds = 0
                                 /\ ~a.no_sms_backoff}
    /\ recording = TRUE
    /\ InitCommon

SpecHistory == InitHistory /\ [][Next]_vars

(* The run under a scheduler that always resumes the task: every poll and *)
(* every sleep that has started returns.                                  *)
SpecLive == Init /\ [][Next]_vars /\ WF_vars(Next)

(* The run in which every poll succeeds and finds the door open, under the *)
(* same scheduler.                                                         *)
StartupPollOpen == StartupPollOk /\ ops'[1] = PollOp(Open)
LoopPollOpen == LoopPollOk /\ ops'[1] = PollOp(Open)
NextOpen == StartupPollOpen \/ LoopPollOpen \/ Sleep

SpecOpen == Init /\ [][NextOpen]_vars /\ WF_vars(NextOpen)

(* Direct calls of handle_sms_with_backoff on a prepared state, as the     *)
(* unit tests of monitor.rs make them: any sms_sent, any index inside and  *)
(* beyond sms_intervals, last_sms_time None or Some, any elapsed time.     *)
MaxProbeIndex == 6
ProbeTimes == {0, 240, 299, 300, 301, 899, 900, 1799, 1800, 3599, 3600, 3601, 7200}
ProbeStates ==
    {[MonitorStateNew EXCEPT !.door_opened_time = Some(0),
                             !.last_door_state = Some(Open),
                             !.sms_sent = b,
                             !.sms_backoff_index = i,
                             !.last_sms_time = l] :
        b \in BOOLEAN, i \in 0..MaxProbeIndex, l \in {None, Some(0)}}

InitProbe ==
    /\ args \in {a \in ArgsSet : /\ a.check_interval_seconds = 5
                                 /\ a.open_too_long_seconds = 0
                                 /\ sms_backoff(a)}
    /\ state \in ProbeStates
    /\ now \in ProbeTimes
    /\ pc = "probe"
    /\ ticks = 0
    /\ ops = <<>>
    /\ episode_alerts = 0
    /\ episode_due = FALSE
    /\ prev_alerts = 0
    /\ recording = FALSE
    /\ samples = <<>>
    /\ log = <<>>
    /\ input = <<>>
    /\ output = <<>>

ProbeBackoff ==
    /\ pc = "probe"
    /\ \E r \in Outcomes :
          LET c == handle_sms_with_backoff(Ctx(state), args,
                                           now - Unwrap(state.door_opened_time),
                                           now, r)
          IN /\ state' = c.state
             /\ ops' = c.ops
    /\ pc' = "probed"
    /\ UNCHANGED <<args, now, ticks, episode_alerts, episode_due, prev_alerts,
                   recording, samples, log, input, output>>

NextProbe == ProbeBackoff

SpecProbe == InitProbe /\ [][NextProbe]_vars

(***************************************************************************)
(* Functions called on their own, as their unit tests call them: the       *)
(* argument is in input, the call leaves its result in output.             *)
(***************************************************************************)
DefaultArgs ==
    [check_interval_seconds |-> 5,
     open_too_long_seconds |-> 15,
     no_sms_backoff |-> FALSE,
     sms_off |-> FALSE,
     telegram_off |-> FALSE]

(* Everything of the monitor at rest while a function is called on its own *)
InitCall ==
    /\ args = DefaultArgs
    /\ state = MonitorStateNew
    /\ now = 0
    /\ ticks = 0
    /\ ops = <<>>
    /\ episode_alerts = 0
    /\ episode_due = FALSE
    /\ prev_alerts = 0
    /\ recording = FALSE
    /\ samples = <<>>
    /\ log = <<>>
    /\ output = <<>>

(* Result<T, E> *)
Ok(v) == [ok |-> TRUE, value |-> <<v>>, error |-> <<>>]
Err(e) == [ok |-> FALSE, value |-> <<>>, error |-> e]

(* door.rs: the response of the door API.  A JSON value of a field is a    *)
(* number, a boolean, a string or null; a body is text that is not JSON, a *)
(* JSON scalar, or a JSON object with or without the fields id and state   *)
(* and with or without a field DoorStatus does not have.                   *)
HttpStatuses == {200, 201, 204, 299, 300, 304, 400, 404, 500, 503}
JsonValues ==
    [t : {"number"}, n : {-1, 0, 1, 255, 256}, b : {FALSE}]
    \cup [t : {"bool"}, n : {0}, b : BOOLEAN]
    \cup [t : {"string", "null"}, n : {0}, b : {FALSE}]
JsonFields == {None} \cup {Some(v) : v \in JsonValues}
Bodies ==
    [kind : {"text", "scalar"}, id : {None}, state : {None}, other : {FALSE}]
    \cup [kind : {"object"}, id : JsonFields, state : JsonFields, other : BOOLEAN]
Responses ==
    [sent : {FALSE}, status : {0}, body : {[kind |-> "text", id |-> None,
                                            state |-> None, other |-> FALSE]}]
    \cup [sent : {TRUE}, status : HttpStatuses, body : Bodies]

(* StatusCode::is_success *)
is_success(status) == 200 <= status /\ status < 300

(* response.json::<DoorStatus>(): id is a u8, state a bool, both required; *)
(* fields the struct does not have are skipped                             *)
DoorStatus_from_json(body) ==
    IF body.kind # "object" THEN Err(<<"error decoding response body">>)
    ELSE IF body.id = None \/ body.state = None
         THEN Err(<<"error decoding response body">>)
    ELSE LET id == Unwrap(body.id)
             st == Unwrap(body.state)
         IN IF id.t # "number" \/ id.n < 0 \/ id.n > 255
            THEN Err(<<"error decoding response body">>)
            ELSE IF st.t # "bool"
                 THEN Err(<<"error decoding response body">>)
                 ELSE Ok([id |-> id.n, state |-> st.b])

(* check_door_status that reads the body whatever the status *)
check_door_status_any_status(response) ==
    IF ~response.sent THEN Err(<<"error sending request">>)
    ELSE DoorStatus_from_json(response.body)

check_door_status(response) ==
    IF ~response.sent THEN Err(<<"error sending request">>)
    ELSE IF is_success(response.status)
         THEN DoorStatus_from_json(response.body)
         ELSE Err(<<"HTTP error: ", response.status>>)

InitDoor ==
    /\ InitCall
    /\ pc = "call"
    /\ input \in Responses

CheckDoorStatus ==
    /\ pc = "call"
    /\ output' = check_door_status(input)
    /\ pc' = "returned"
    /\ UNCHANGED <<args, state, now, ticks, ops, episode_alerts, episode_due,
                   prev_alerts, recording, samples, log, input>>

NextDoor == CheckDoorStatus

SpecDoor == InitDoor /\ [][NextDoor]_vars

(* utils.rs: a Duration is whole seconds and nanoseconds; a String is the  *)
(* sequence of its characters.                                             *)
Durations ==
    [secs : (0..121) \cup (3595..3605) \cup (7195..7205)
            \cup (86395..86405) \cup (89995..90005) \cup (172795..172805)
            \cup {45, 5 * 60 + 30, 2 * 3600 + 15 * 60 + 45,
                  2 * 86400 + 3 * 3600 + 20 * 60 + 15,
                  365 * 86400 + 12 * 3600 + 30 * 60 + 45},
     nanos : {0, 999999999}]

as_secs(duration) == duration.secs

Digits == <<"0", "1", "2", "3", "4", "5", "6", "7", "8", "9">>

(* {} of an unsigned integer *)
RECURSIVE Decimal(_)
Decimal(n) ==
    IF n < 10 THEN <<Digits[n + 1]>>
    ELSE Decimal(n \div 10) \o <<Digits[(n % 10) + 1]>>

(* {:02} of an unsigned integer *)
Pad2(n) == IF n < 10 THEN <<"0">> \o Decimal(n) ELSE Decimal(n)

(* format_duration that takes the hours of the whole duration *)
format_duration_total_hours(duration) ==
    LET total_seconds == as_secs(duration)
        days == total_seconds \div 86400
        hours == total_seconds \div 3600
        minutes == (total_seconds % 3600) \div 60
        seconds == total_seconds % 60
    IN IF days > 0
       THEN Decimal(days) \o <<"d", " ">> \o Pad2(hours) \o <<":">>
            \o Pad2(minutes) \o <<":">> \o Pad2(seconds)
       ELSE Pad2(hours) \o <<":">> \o Pad2(minutes) \o <<":">> \o Pad2(seconds)

format_duration(duration) ==
    LET total_seconds == as_secs(duration)
        days == total_seconds \div 86400
        hours == (total_seconds % 86400) \div 3600
        minutes == (total_seconds % 3600) \div 60
        seconds == total_seconds % 60
    IN IF days > 0
       THEN Decimal(days) \o <<"d", " ">> \o Pad2(hours) \o <<":">>
            \o Pad2(minutes) \o <<":">> \o Pad2(seconds)
       ELSE Pad2(hours) \o <<":">> \o Pad2(minutes) \o <<":">> \o Pad2(seconds)

InitFormat ==
    /\ InitCall
    /\ pc = "call"
    /\ input \in Durations

FormatDuration ==
    /\ pc = "call"
    /\ output' = format_duration(input)
    /\ pc' = "returned"
    /\ UNCHANGED <<args, state, now, ticks, ops, episode_alerts, episode_due,
                   prev_alerts, recording, samples, log, input>>

NextFormat == FormatDuration

SpecFormat == InitFormat /\ [][NextFormat]_vars

(* sms.rs and telegram.rs: the optional arguments of the two channels, and *)
(* what the network does with a request if one is made: the send fails, or *)
(* a response with a status comes back.                                    *)
Strings == {None, Some("x")}
ChannelArgs ==
    [sms_api_username : Strings,
     sms_api_password : Strings,
     sms_from_phone_number : Strings,
     sms_to_phone_number : Strings,
     telegram_token : Strings,
     telegram_conversation_id : Strings]
Networks == [sent : {FALSE}, status : {0}] \cup [sent : {TRUE}, status : {200, 500}]
Unit == <<>>

(* What a send returns and the requests it made *)
Sent(channel, result, requests) ==
    [channel |-> channel, result |-> result, requests |-> requests]

(* send_sms that reports missing arguments as an error *)
send_sms_err_on_missing(a, net) ==
    IF /\ IsSome(a.sms_api_username)
       /\ IsSome(a.sms_api_password)
       /\ IsSome(a.sms_from_phone_number)
       /\ IsSome(a.sms_to_phone_number)
    THEN IF ~net.sent
         THEN Sent("sms", Err(<<"error sending request">>), <<"GET voip.ms">>)
         ELSE Sent("sms", Ok(Unit), <<"GET voip.ms">>)
    ELSE Sent("sms", Err(<<"SMS args not supplied">>), <<>>)

send_sms(a, net) ==
    IF /\ IsSome(a.sms_api_username)
       /\ IsSome(a.sms_api_password)
       /\ IsSome(a.sms_from_phone_number)
       /\ IsSome(a.sms_to_phone_number)
    THEN IF ~net.sent
         THEN Sent("sms", Err(<<"error sending request">>), <<"GET voip.ms">>)
         ELSE Sent("sms", Ok(Unit), <<"GET voip.ms">>)
    ELSE Sent("sms", Ok(Unit), <<>>)

send_telegram(a, net) ==
    IF IsSome(a.telegram_token) /\ IsSome(a.telegram_conversation_id)
    THEN IF ~net.sent
         THEN Sent("telegram", Err(<<"error sending request">>), <<"POST api.telegram.org">>)
         ELSE Sent("telegram", Ok(Unit), <<"POST api.telegram.org">>)
    ELSE Sent("telegram", Ok(Unit), <<>>)

InitSend ==
    /\ InitCall
    /\ pc = "call"
    /\ input \in [args : ChannelArgs, net : Networks]

SendSms ==
    /\ pc = "call"
    /\ output' = send_sms(input.args, input.net)
    /\ pc' = "returned"
    /\ UNCHANGED <<args, state, now, ticks, ops, episode_alerts, episode_due,
                   prev_alerts, recording, samples, log, input>>

SendTelegram ==
    /\ pc = "call"
    /\ output' = send_telegram(input.args, input.net)
    /\ pc' = "returned"
    /\ UNCHANGED <<args, state, now, ticks, ops, episode_alerts, episode_due,
                   prev_alerts, recording, samples, log, input>>

NextSend == SendSms \/ SendTelegram

SpecSend == InitSend /\ [][NextSend]_vars

(* Two monitors side by side: they receive the same samples at the same    *)
(* times under the same policy.  The first is the run above with every     *)
(* send succeeding; the second has its own sms_off and telegram_off (in    *)
(* input) and its own send outcomes, and its MonitorState is in output.    *)
SendsOk == [sms |-> TRUE, telegram |-> TRUE]
SamePolicy(a, b) ==
    /\ a.check_interval_seconds = b.check_interval_seconds
    /\ a.open_too_long_seconds = b.open_too_long_seconds
    /\ a.no_sms_backoff = b.no_sms_backoff

InitPair ==
    /\ args \in ArgsSet
    /\ recording = FALSE
    /\ state = MonitorStateNew
    /\ now = 0
    /\ pc = "startup"
    /\ ticks = 0
    /\ ops = <<>>
    /\ episode_alerts = 0
    /\ episode_due = FALSE
    /\ prev_alerts = 0
    /\ samples = <<>>
    /\ log = <<>>
    /\ input \in {a \in ArgsSet : SamePolicy(a, args)}
    /\ output = MonitorStateNew

PairStartupPollOk ==
    /\ pc = "startup"
    /\ \E door_closed \in BOOLEAN, q \in Outcomes :
          /\ FinishRun(PollOp(door_closed),
                       initial_status(Ctx(state), door_closed, args, now, SendsOk),
                       Some(door_closed))
          /\ output' = initial_status(Ctx(output), door_closed, input, now, q).state
    /\ pc' = "poll"
    /\ UNCHANGED <<args, now, ticks, recording, input>>

PairStartupPollErr ==
    /\ pc = "startup"
    /\ FinishRun(PollErr, Ctx(state), None)
    /\ pc' = "poll"
    /\ UNCHANGED <<args, now, ticks, recording, input, output>>

PairLoopPollOk ==
    /\ pc = "poll"
    /\ \E door_closed \in BOOLEAN, q1 \in Outcomes, q2 \in Outcomes :
          /\ FinishRun(PollOp(door_closed),
                       handle_door_status(Ctx(state), door_closed, args, now,
                                          SendsOk, SendsOk),
                       Some(door_closed))
          /\ output' = handle_door_status(Ctx(output), door_closed, input, now,
                                          q1, q2).state
    /\ pc' = "sleep"
    /\ UNCHANGED <<args, now, ticks, recording, input>>

PairLoopPollErr ==
    /\ pc = "poll"
    /\ FinishRun(PollErr, Ctx(state), None)
    /\ pc' = "sleep"
    /\ UNCHANGED <<args, now, ticks, recording, input, output>>

NextPair ==
    \/ PairStartupPollOk
    \/ PairStartupPollErr
    \/ PairLoopPollOk
    \/ PairLoopPollErr
    \/ Sleep

SpecPair == InitPair /\ [][NextPair]_vars

(* MonitorState::new and reset_sms_state called on their own, as the unit  *)
(* tests call them: on a state whose fields were set directly, kept in     *)
(* input for comparison; reset_sms_state is called once and once more.     *)
AnyTimes == {None, Some(0), Some(5)}
AnyStates ==
    [door_opened_time : AnyTimes,
     door_closed_time : AnyTimes,
     last_door_state : {None, Some(Closed), Some(Open)},
     sms_sent : BOOLEAN,
     sms_backoff_index : 0..MaxProbeIndex,
     last_sms_time : AnyTimes]

InitState ==
    /\ args = DefaultArgs
    /\ state \in AnyStates
    /\ input = state
    /\ now = 5
    /\ pc = "call"
    /\ ticks = 0
    /\ ops = <<>>
    /\ episode_alerts = 0
    /\ episode_due = FALSE
    /\ prev_alerts = 0
    /\ recording = FALSE
    /\ samples = <<>>
    /\ log = <<>>
    /\ output = <<>>

MonitorStateNewCall ==
    /\ pc = "call"
    /\ state' = MonitorStateNew
    /\ ops' = <<>>
    /\ pc' = "new"
    /\ UNCHANGED <<args, now, ticks, episode_alerts, episode_due, prev_alerts,
                   recording, samples, log, input, output>>

ResetSmsState ==
    /\ pc \in {"call", "reset"}
    /\ LET c == reset_sms_state(Ctx(state))
       IN /\ state' = c.state
          /\ ops' = c.ops
    /\ pc' = IF pc = "call" THEN "reset" ELSE "reset again"
    /\ UNCHANGED <<args, now, ticks, episode_alerts, episode_due, prev_alerts,
                   recording, samples, log, input, output>>

NextState == MonitorStateNewCall \/ ResetSmsState

SpecState == InitState /\ [][NextState]_vars

(***************************************************************************)
(* The standalone loop of main.rs: its own Args, three local variables in  *)
(* place of MonitorState, SMS only, no start-up poll.                      *)
(***************************************************************************)
MainArgsSet == [check_interval : CheckIntervals, warning_threshold : Thresholds]

MainStateNew ==
    [door_opened_time |-> None,
     last_door_state |-> None,
     sms_sent |-> FALSE]

(* format!(...) of a message and the send_sms of it; ok is the outcome *)
MainSend(c, what, dur, ok) ==
    Do(Do(c, Op("message", what, 0, dur, TRUE)),
       Op("send_sms", what, 0, dur, ok))

(* The change of state of the Ok arm that reports every close *)
main_state_change_always_report(c, door_closed, t, ok) ==
    LET c0 == Do(c, Op("change", Transition(c.state.last_door_state, door_closed),
                       0, 0, TRUE))
        c1 == IF door_closed
              THEN LET c2 == IF IsSome(c0.state.door_opened_time)
                             THEN MainSend(c0, "DoorClosed",
                                           t - Unwrap(c0.state.door_opened_time), ok)
                             ELSE c0
                       c3 == Write(c2, "door_opened_time", None)
                   IN Write(c3, "sms_sent", FALSE)
              ELSE Write(c0, "door_opened_time", Some(t))
    IN Write(c1, "last_door_state", Some(door_closed))

(* The body of `if last_door_state != Some(door_closed)` in the Ok arm *)
main_state_change(c, door_closed, t, ok) ==
    LET c0 == Do(c, Op("change", Transition(c.state.last_door_state, door_closed),
                       0, 0, TRUE))
        c1 == IF door_closed
              THEN LET c2 == IF c0.state.sms_sent /\ IsSome(c0.state.door_opened_time)
                             THEN MainSend(c0, "DoorClosed",
                                           t - Unwrap(c0.state.door_opened_time), ok)
                             ELSE c0
                       c3 == Write(c2, "door_opened_time", None)
                   IN Write(c3, "sms_sent", FALSE)
              ELSE Write(c0, "door_opened_time", Some(t))
    IN Write(c1, "last_door_state", Some(door_closed))

(* The open-too-long check of the Ok arm *)
main_open_too_long(c, a, t, ok) ==
    IF IsSome(c.state.door_opened_time)
    THEN LET time_open == t - Unwrap(c.state.door_opened_time)
         IN IF time_open >= a.warning_threshold
            THEN LET c1 == Do(c, Op("too_long", "log", 0, time_open, TRUE))
                 IN IF ~c1.state.sms_sent
                    THEN Write(MainSend(c1, "ALERT", time_open, ok), "sms_sent", TRUE)
                    ELSE c1
            ELSE c
    ELSE c

(* The Ok arm of the loop of main; ok1 and ok2 are the outcomes of the     *)
(* send of the close message and of the alert                              *)
main_tick(c, door_closed, a, t, ok1, ok2) ==
    LET c1 == IF c.state.last_door_state # Some(door_closed)
              THEN main_state_change(c, door_closed, t, ok1)
              ELSE c
    IN IF ~door_closed
       THEN main_open_too_long(c1, a, t, ok2)
       ELSE c1

InitMain ==
    /\ args \in MainArgsSet
    /\ state = MainStateNew
    /\ now = 0
    /\ pc = "poll"
    /\ ticks = 0
    /\ ops = <<>>
    /\ episode_alerts = 0
    /\ episode_due = FALSE
    /\ prev_alerts = 0
    /\ recording = FALSE
    /\ samples = <<>>
    /\ log = <<>>
    /\ input = <<>>
    /\ output = <<>>

MainPollOk ==
    /\ pc = "poll"
    /\ \E door_closed \in BOOLEAN, ok1 \in BOOLEAN, ok2 \in BOOLEAN :
          Finish(PollOp(door_closed),
                 main_tick(Ctx(state), door_closed, args, now, ok1, ok2),
                 Some(door_closed))
    /\ pc' = "sleep"
    /\ UNCHANGED <<args, now, ticks, recording>>

MainPollErr ==
    /\ pc = "poll"
    /\ Finish(PollErr, Ctx(state), None)
    /\ pc' = "sleep"
    /\ UNCHANGED <<args, now, ticks, recording>>

MainSleep ==
    /\ pc = "sleep"
    /\ ticks < MaxTicks
    /\ now' = now + args.check_interval
    /\ ticks' = ticks + 1
    /\ pc' = "poll"
    /\ ops' = <<Op("sleep", "check_interval", 0, args.check_interval, TRUE)>>
    /\ UNCHANGED <<args, state, episode_alerts, episode_due, prev_alerts,
                   recording, samples, log, input, output>>

NextMain == MainPollOk \/ MainPollErr \/ MainSleep

SpecMain == InitMain /\ [][NextMain]_vars

(***************************************************************************)
(* Properties                                                              *)
(***************************************************************************)
SuccessfulPoll(o) == o # <<>> /\ o[1].op = "poll" /\ o[1].ok
FailedPoll(o) == o # <<>> /\ o[1].op = "poll" /\ ~o[1].ok
Sampled(o, door_closed) == o # <<>> /\ o[1] = PollOp(door_closed)
HasChange(o, w) == \E i \in DOMAIN o : o[i].op = "change" /\ o[i].what = w

BackoffFieldNames == {"sms_sent", "sms_backoff_index", "last_sms_time"}
BackoffFields(s) == <<s.sms_sent, s.sms_backoff_index, s.last_sms_time>>
BackoffAtInitial(s) == BackoffFields(s) = <<FALSE, 0, None>>

(* Values of the three backoff fields tried against a transition *)
BackoffProbe == [sms_sent : BOOLEAN,
                 sms_backoff_index : {0, 1, 4, 5},
                 last_sms_time : {None, Some(0)}]
WithBackoff(s, b) ==
    [s EXCEPT !.sms_sent = b.sms_sent,
              !.sms_backoff_index = b.sms_backoff_index,
              !.last_sms_time = b.last_sms_time]

(* C1: a tick that finds the last known state closed and samples open      *)
(* forms exactly one "Door has been opened" message, whatever the          *)
(* threshold; the transition handler gives the same operations for every   *)
(* value of sms_sent, sms_backoff_index and last_sms_time and writes none  *)
(* of them.                                                                *)
C1_DoorOpenedOnce ==
    [][ (pc = "poll" /\ state.last_door_state = Some(Closed) /\ Sampled(ops', Open))
        => /\ CountWhat(ops', "DoorOpened") = 1
           /\ \A r \in Outcomes, b \in BackoffProbe :
                 LET c0 == handle_door_state_change(Ctx(state), Open, args, now, r)
                     s2 == WithBackoff(state, b)
                     c == handle_door_state_change(Ctx(s2), Open, args, now, r)
                 IN /\ CountWhat(c.ops, "DoorOpened") = 1
                    /\ c.ops = c0.ops
                    /\ BackoffFields(c.state) = BackoffFields(s2)
                    /\ \A f \in BackoffFieldNames : ~Wrote(c.ops, f) ]_vars

C1_Witness ==
    /\ pc = "sleep"
    /\ HasChange(ops, "Closed->Open")
    /\ CountWhat(ops, "DoorOpened") = 1
    /\ args.open_too_long_seconds = 15

(* C2: a tick that finds the last known state open and samples closed      *)
(* forms exactly one "Door is now closed after being open for ..." message *)
(* and ends with the backoff fields reset, door_opened_time None and       *)
(* door_closed_time set.                                                   *)
C2_DoorClosedOnceAndReset ==
    [][ (pc = "poll" /\ state.last_door_state = Some(Open) /\ Sampled(ops', Closed))
        => /\ CountWhat(ops', "DoorClosed") = 1
           /\ Len(Messages(ops')) = 1
           /\ state'.sms_sent = FALSE
           /\ state'.sms_backoff_index = 0
           /\ state'.last_sms_time = None
           /\ state'.door_opened_time = None
           /\ state'.door_closed_time = Some(now) ]_vars

C2_Witness ==
    /\ pc = "sleep"
    /\ HasChange(ops, "Open->Closed")
    /\ CountWhat(ops, "DoorClosed") = 1
    /\ episode_alerts = 0
    /\ BackoffAtInitial(state)

(* C3: in backoff mode with warning_threshold 0, the first open tick of an *)
(* episode sends the alert and takes sms_backoff_index from 0 to 1; a tick *)
(* 4 minutes after that alert sends nothing; a tick 6 minutes after it     *)
(* sends the second one and takes sms_backoff_index from 1 to 2.           *)
C3_SecondAlertAfterSixMinutes ==
    [][ (/\ pc = "poll"
         /\ sms_backoff(args)
         /\ args.open_too_long_seconds = 0
         /\ Sampled(ops', Open))
        => /\ ~state.sms_sent
              => /\ CountAlerts(ops') = 1
                 /\ state.sms_backoff_index = 0
                 /\ state'.sms_backoff_index = 1
           /\ (/\ state.sms_sent
               /\ state.sms_backoff_index = 1
               /\ state.last_sms_time = Some(now - 4 * 60))
              => /\ CountAlerts(ops') = 0
                 /\ state'.sms_backoff_index = 1
           /\ (/\ state.sms_sent
               /\ state.sms_backoff_index = 1
               /\ state.last_sms_time = Some(now - 6 * 60))
              => /\ CountAlerts(ops') = 1
                 /\ state'.sms_backoff_index = 2 ]_vars

(* C4: in single-shot mode an open episode has at most one open-too-long   *)
(* alert, and exactly one once some check of the episode has seen          *)
(* time_open >= warning_threshold.                                         *)
C4_SingleShotOncePerEpisode ==
    args.no_sms_backoff
    => /\ episode_alerts <= 1
       /\ episode_due => episode_alerts = 1

C4_Witness ==
    /\ args.no_sms_backoff
    /\ episode_alerts = 1
    /\ SawTooLong(ops)
    /\ CountAlerts(ops) = 0
    /\ IsSome(state.door_opened_time)
    /\ now - Unwrap(state.door_opened_time) >= 3 * args.check_interval_seconds

(* C5: a step whose poll fails changes no field of the monitor state and   *)
(* does nothing but the poll; nor does the sleep change the state, so the  *)
(* next successful poll is handled from the state before the failure.      *)
C5_FailedPollChangesNothing ==
    [][ ~SuccessfulPoll(ops') => (state' = state /\ Len(ops') = 1) ]_vars

C5_Witness ==
    /\ pc = "sleep"
    /\ ops = <<PollErr>>
    /\ state.last_door_state = Some(Open)
    /\ state.sms_sent
    /\ state.sms_backoff_index > 0

(* C6 as stated: in both modes, sms_backoff_index > 0 implies sms_sent,    *)
(* and sms_sent implies last_sms_time is set.                              *)
C6_SentImpliesTimed ==
    /\ state.sms_backoff_index > 0 => state.sms_sent
    /\ state.sms_sent => IsSome(state.last_sms_time)

(* C6 amended: sms_backoff_index > 0 implies sms_sent in both modes; in    *)
(* backoff mode sms_sent implies last_sms_time is set.                     *)
C6_SentImpliesTimedInBackoff ==
    /\ state.sms_backoff_index > 0 => state.sms_sent
    /\ (sms_backoff(args) /\ state.sms_sent) => IsSome(state.last_sms_time)

C6_Witness ==
    /\ sms_backoff(args)
    /\ state.sms_sent
    /\ state.sms_backoff_index = 2
    /\ IsSome(state.last_sms_time)

(* C7: before the first sample door_opened_time and door_closed_time are   *)
(* both None; after it exactly one of them is set.                         *)
C7_ExactlyOneTimestamp ==
    /\ state.last_door_state = None
       => (state.door_opened_time = None /\ state.door_closed_time = None)
    /\ state.last_door_state # None
       => (IsSome(state.door_opened_time) # IsSome(state.door_closed_time))

C7_Witness ==
    /\ HasChange(ops, "Closed->Open")
    /\ IsSome(state.door_opened_time)
    /\ state.door_closed_time = None
    /\ ticks >= 2

(* C8: the first successful sample, when it reports closed, forms exactly  *)
(* one start-up status message, sets door_closed_time and leaves           *)
(* door_opened_time unset, at the start-up poll or at a later loop tick.   *)
C8_FirstClosedSampleStartupStatus ==
    [][ (state.last_door_state = None /\ Sampled(ops', Closed))
        => /\ CountWhat(ops', "StartupStatus") = 1
           /\ Len(Messages(ops')) = 1
           /\ IsSome(state'.door_closed_time)
           /\ state'.door_opened_time = None ]_vars

(* C9 as stated: with a 5 s interval, a 15 s threshold and backoff, a      *)
(* fresh monitor whose samples are open at t = 0, 5, 10 and 15 forms       *)
(* "Door has been opened" at t = 0, nothing at t = 5 and 10, and the alert *)
(* at t = 15 with sms_backoff_index 0.                                     *)
C9_Times == <<0, 5, 10, 15>>
C9_SamplesAre ==
    /\ Len(samples) = Len(C9_Times)
    /\ \A i \in DOMAIN samples :
          samples[i][1] = Open /\ samples[i][2] = C9_Times[i]
C9_Events(first) == <<<<first, 0, 0>>, <<"ALERT", 15, 0>>>>

C9_FourOpenSamples ==
    C9_SamplesAre => log = C9_Events("DoorOpened")

(* C9 amended: the message at t = 0 is "Door has been opened" when the     *)
(* loop takes the first sample (the start-up poll failed) and the start-up *)
(* status when the start-up poll takes it; in both cases nothing is formed *)
(* at t = 5 and 10 and the alert is formed at t = 15 with                  *)
(* sms_backoff_index 0.                                                    *)
C9_FourOpenSamplesByFirstPoll ==
    C9_SamplesAre
    => log = C9_Events(IF samples[1][3] = "startup"
                       THEN "StartupStatus"
                       ELSE "DoorOpened")

C9_Witness ==
    /\ C9_SamplesAre
    /\ samples[1][3] = "poll"
    /\ log = C9_Events("DoorOpened")
    /\ now = 15
    /\ state.sms_backoff_index = 1

(* C10: the step that handles the first sample runs no open-too-long       *)
(* logic: it leaves sms_sent, sms_backoff_index and last_sms_time as they  *)
(* were and forms no alert, for every threshold and either sample.         *)
C10_FirstSampleNoBackoff ==
    [][ (state.last_door_state = None /\ SuccessfulPoll(ops'))
        => /\ BackoffFields(state') = BackoffFields(state)
           /\ CountAlerts(ops') = 0
           /\ ~SawTooLong(ops') ]_vars

(* C11: the decision of handle_sms_with_backoff is the reference due: it   *)
(* sends when sms_sent is false; when sms_sent is true and last_sms_time   *)
(* is set it sends exactly when now - last_sms_time is at least            *)
(* intervals[min(sms_backoff_index, 3)], for indexes inside and beyond the *)
(* list.                                                                   *)
Min(x, y) == IF x <= y THEN x ELSE y
due_intervals == <<5 * 60, 15 * 60, 30 * 60, 60 * 60>>
due_interval(index) == due_intervals[Min(index, Len(due_intervals) - 1) + 1]

C11_DecisionIsDue ==
    [][ (pc = "probe" /\ pc' = "probed")
        => /\ ~state.sms_sent => CountAlerts(ops') = 1
           /\ (state.sms_sent /\ IsSome(state.last_sms_time))
              => ((CountAlerts(ops') = 1)
                  <=> (now - Unwrap(state.last_sms_time)
                       >= due_interval(state.sms_backoff_index)))
           /\ CountAlerts(ops') <= 1 ]_vars

C11_Witness ==
    /\ pc = "probed"
    /\ now = 3600
    /\ state.sms_backoff_index = MaxProbeIndex + 1
    /\ \E i \in DOMAIN ops : ops[i].op = "message" /\ ops[i].what = "REMINDER"

(* C12: in backoff mode, once sms_backoff_index is 4 or more, an open tick *)
(* sends a reminder exactly when 60 minutes have passed since the last     *)
(* one, so reminders at these indexes are never closer than 60 minutes and *)
(* the first tick past 60 minutes sends; each reminder adds 1 to           *)
(* sms_backoff_index, which is never clamped.                              *)
C12_SixtyMinutesBeyondList ==
    [][ (/\ pc = "poll"
         /\ sms_backoff(args)
         /\ Sampled(ops', Open)
         /\ state.last_door_state = Some(Open)
         /\ state.sms_sent
         /\ state.sms_backoff_index >= 4
         /\ IsSome(state.last_sms_time))
        => /\ (CountAlerts(ops') = 1)
              <=> (now - Unwrap(state.last_sms_time) >= 60 * 60)
           /\ CountAlerts(ops') = 1
              => /\ state'.sms_backoff_index = state.sms_backoff_index + 1
                 /\ state'.last_sms_time = Some(now)
           /\ CountAlerts(ops') = 0
              => /\ state'.sms_backoff_index = state.sms_backoff_index
                 /\ state'.last_sms_time = state.last_sms_time ]_vars

C12_Witness ==
    /\ sms_backoff(args)
    /\ state.sms_backoff_index = 6
    /\ state.last_sms_time = Some(now)
    /\ \E i \in DOMAIN ops :
          ops[i].op = "message" /\ ops[i].what = "REMINDER" /\ ops[i].idx = 5

(* The open time the check of a step saw, from the state the step left *)
TimeOpenAfter(s, t) == t - Unwrap(s.door_opened_time)

(* Parts of C13 that do not depend on the transition: an open sample with  *)
(* time_open below the threshold sends no alert and leaves the backoff     *)
(* fields alone; an alert implies time_open >= warning_threshold; and      *)
(* handle_door_open_too_long with door_opened_time None does nothing.      *)
C13_OpenCases ==
    /\ (Sampled(ops', Open)
        /\ TimeOpenAfter(state', now) < args.open_too_long_seconds)
       => /\ CountAlerts(ops') = 0
          /\ BackoffFields(state') = BackoffFields(state)
    /\ CountAlerts(ops') > 0
       => /\ Sampled(ops', Open)
          /\ TimeOpenAfter(state', now) >= args.open_too_long_seconds
    /\ \A r \in Outcomes :
          LET c == Ctx([state EXCEPT !.door_opened_time = None])
          IN handle_door_open_too_long(c, args, now, r) = c

(* C13 as stated: no alert is sent and sms_sent, sms_backoff_index and     *)
(* last_sms_time are unchanged on any tick where the door is closed, where *)
(* door_opened_time is None, or where time_open < warning_threshold; an    *)
(* alert is sent only when time_open >= warning_threshold.                 *)
C13_NoAlertNoChange ==
    [][ SuccessfulPoll(ops')
        => /\ C13_OpenCases
           /\ Sampled(ops', Closed)
              => /\ CountAlerts(ops') = 0
                 /\ BackoffFields(state') = BackoffFields(state) ]_vars

(* C13 amended: as stated, except that a closed tick that observes the     *)
(* Open->Closed transition resets the three fields to false, 0 and None.   *)
C13_NoAlertNoChangeButReset ==
    [][ SuccessfulPoll(ops')
        => /\ C13_OpenCases
           /\ Sampled(ops', Closed)
              => /\ CountAlerts(ops') = 0
                 /\ IF HasChange(ops', "Open->Closed")
                    THEN BackoffAtInitial(state')
                    ELSE BackoffFields(state') = BackoffFields(state) ]_vars

C13_Witness ==
    /\ pc = "sleep"
    /\ Sampled(ops, Open)
    /\ args.open_too_long_seconds = 15
    /\ TimeOpenAfter(state, now) = 10
    /\ ~SawTooLong(ops)
    /\ BackoffAtInitial(state)

NoChangeOp(o) == ~\E i \in DOMAIN o : o[i].op = "change"

(* C14 as stated: every alert, under either policy, sets sms_sent, sets    *)
(* last_sms_time to the current time and adds exactly 1 to                 *)
(* sms_backoff_index; a step with no alert and no state change leaves the  *)
(* three fields unchanged.                                                 *)
C14_AlertSetsAllThree ==
    [][ /\ CountAlerts(ops') > 0
           => /\ CountAlerts(ops') = 1
              /\ state'.sms_sent
              /\ state'.last_sms_time = Some(now)
              /\ state'.sms_backoff_index = state.sms_backoff_index + 1
        /\ (CountAlerts(ops') = 0 /\ NoChangeOp(ops'))
           => BackoffFields(state') = BackoffFields(state) ]_vars

(* C14 amended: every alert sets sms_sent; in backoff mode it also sets    *)
(* last_sms_time to the current time and adds exactly 1 to                 *)
(* sms_backoff_index, in single-shot mode it leaves those two as they      *)
(* were; a step with no alert and no state change leaves the three fields  *)
(* unchanged.                                                              *)
C14_AlertSetsByPolicy ==
    [][ /\ CountAlerts(ops') > 0
           => /\ CountAlerts(ops') = 1
              /\ state'.sms_sent
              /\ IF sms_backoff(args)
                 THEN /\ state'.last_sms_time = Some(now)
                      /\ state'.sms_backoff_index = state.sms_backoff_index + 1
                 ELSE /\ state'.last_sms_time = state.last_sms_time
                      /\ state'.sms_backoff_index = state.sms_backoff_index
        /\ (CountAlerts(ops') = 0 /\ NoChangeOp(ops'))
           => BackoffFields(state') = BackoffFields(state) ]_vars

C14_Witness ==
    /\ sms_backoff(args)
    /\ CountWhat(ops, "REMINDER") = 1
    /\ state.sms_sent
    /\ state.sms_backoff_index = 2
    /\ state.last_sms_time = Some(now)
    /\ now > 0

IsSend(e) == e.op \in {"send_sms", "send_telegram"}

(* After the message at position i of o, each channel that is not off is   *)
(* tried once, SMS first, whatever the outcome of the other send           *)
BothTried(o, i, a) ==
    LET k == IF a.sms_off THEN i ELSE i + 1
        n == IF a.telegram_off THEN k ELSE k + 1
    IN /\ n <= Len(o)
       /\ ~a.sms_off
          => (o[i + 1].op = "send_sms" /\ o[i + 1].what = o[i].what)
       /\ ~a.telegram_off
          => (o[k + 1].op = "send_telegram" /\ o[k + 1].what = o[i].what)
       /\ n < Len(o) => ~IsSend(o[n + 1])

(* C15: an Err from send_sms or send_telegram changes nothing in the       *)
(* resulting state and does not stop the other channel: after every        *)
(* message each enabled channel is tried, and the state a step leaves is   *)
(* the same for every combination of send outcomes.                        *)
C15_SendErrorsIgnored ==
    [][ SuccessfulPoll(ops')
        => /\ \A i \in DOMAIN ops' :
                 ops'[i].op = "message" => BothTried(ops', i, args)
           /\ \A r1 \in Outcomes, r2 \in Outcomes :
                 LET door_closed == ops'[1].what = "closed"
                     c == IF pc = "startup"
                          THEN initial_status(Ctx(state), door_closed, args, now, r1)
                          ELSE handle_door_status(Ctx(state), door_closed, args,
                                                  now, r1, r2)
                 IN c.state = state' ]_vars

C15_Witness ==
    /\ state.sms_sent
    /\ \E i \in DOMAIN ops :
          /\ i + 2 <= Len(ops)
          /\ IsAlert(ops[i])
          /\ ops[i + 1].op = "send_sms" /\ ~ops[i + 1].ok
          /\ ops[i + 2].op = "send_telegram" /\ ~ops[i + 2].ok

(* C16: within a step every write of a MonitorState field comes before the *)
(* first send: no field is written after a send has started.               *)
C16_WritesBeforeSends ==
    \A i \in DOMAIN ops, j \in DOMAIN ops :
        (i < j /\ IsSend(ops[i])) => ops[j].op # "write"

(* C17: with sms_sent true and last_sms_time None, handle_sms_with_backoff *)
(* sends nothing and leaves sms_sent, sms_backoff_index and last_sms_time  *)
(* unchanged, for every index and time open.                               *)
C17_InconsistentStateSendsNothing ==
    [][ (/\ pc = "probe"
         /\ pc' = "probed"
         /\ state.sms_sent
         /\ state.last_sms_time = None)
        => /\ ops' = <<>>
           /\ state' = state ]_vars

C17_Witness ==
    /\ pc = "probed"
    /\ state.sms_sent
    /\ state.last_sms_time = None
    /\ state.sms_backoff_index = 1
    /\ now = 900
    /\ ops = <<>>

(* C18: last_door_state is None exactly while no sample has been received; *)
(* once a sample has been received it is never None again and, after each  *)
(* successful poll, it is the sample of that poll.                         *)
C18_UnknownOnlyBeforeFirstSample ==
    IF samples = <<>>
    THEN state.last_door_state = None
    ELSE state.last_door_state = Some(samples[Len(samples)][1])

C18_Witness ==
    /\ Len(samples) = 3
    /\ samples[1][1] = Closed
    /\ samples[2][1] = Open
    /\ samples[3][1] = Closed
    /\ samples[1][3] = "poll"
    /\ state.last_door_state = Some(Closed)
    /\ ops = <<PollErr>>

SleepOp == Op("sleep", "check_interval", 0, args.check_interval_seconds, TRUE)
IsPollStep(o) == o # <<>> /\ o[1].op = "poll"
IsSleepStep(o) == o # <<>> /\ o[1].op = "sleep"

(* Within a step the poll comes first and the sleep is a step of its own;  *)
(* a sleep always follows a poll step.                                     *)
C19_StepOrder ==
    /\ IsPollStep(ops')
       => \A i \in 2..Len(ops') : ops'[i].op \notin {"poll", "sleep"}
    /\ IsSleepStep(ops') => (ops' = <<SleepOp>> /\ IsPollStep(ops))

(* C19 as stated: every poll after the first of the run, the start-up poll *)
(* included, is separated from the poll before it by exactly one sleep of  *)
(* check_interval.                                                         *)
C19_OneSleepBetweenPolls ==
    [][ /\ C19_StepOrder
        /\ (IsPollStep(ops') /\ ops # <<>>) => ops = <<SleepOp>> ]_vars

(* C19 amended: two consecutive polls of the loop are separated by exactly *)
(* one sleep of check_interval; the first poll of the loop follows the     *)
(* start-up poll with no sleep in between.                                 *)
C19_OneSleepBetweenLoopPolls ==
    [][ /\ C19_StepOrder
        /\ (IsPollStep(ops') /\ ops # <<>>)
           => IF ticks = 0
              THEN pc = "poll" /\ IsPollStep(ops)
              ELSE ops = <<SleepOp>> ]_vars

C19_Witness ==
    /\ pc = "sleep"
    /\ ticks = 2
    /\ now = 2 * args.check_interval_seconds
    /\ IsPollStep(ops)

(* C20: the loop does not stop: whatever the polls give, the run reaches   *)
(* the poll that follows the MaxTicks-th sleep (the cap of this model);    *)
(* each sleep lasts check_interval and leads to the next poll, and a       *)
(* failed poll leads to the sleep and changes nothing that could count     *)
(* failures.                                                               *)
C20_LoopKeepsPolling ==
    /\ <>(pc = "sleep" /\ ticks = MaxTicks)
    /\ [][ /\ IsSleepStep(ops')
              => /\ now' = now + args.check_interval_seconds
                 /\ ticks' = ticks + 1
           /\ FailedPoll(ops')
              => /\ UNCHANGED <<args, state, now, ticks>>
                 /\ pc' = IF pc = "startup" THEN "poll" ELSE "sleep" ]_vars

C20_Witness ==
    /\ pc = "sleep"
    /\ ticks = MaxTicks
    /\ now = MaxTicks * args.check_interval_seconds
    /\ ops = <<PollErr>>
    /\ state.last_door_state = None

(* A body that is a DoorStatus: an object whose id is a number of u8 and   *)
(* whose state is true or false                                            *)
ValidDoorStatus(body) ==
    /\ body.kind = "object"
    /\ \E n \in 0..255 : body.id = Some([t |-> "number", n |-> n, b |-> FALSE])
    /\ \E b \in BOOLEAN : body.state = Some([t |-> "bool", n |-> 0, b |-> b])

(* C21: check_door_status returns Err with "HTTP error: <status>" for      *)
(* every status outside 200..299, Err for every success response whose     *)
(* body is not a DoorStatus, and otherwise Ok with the state of the body,  *)
(* which the monitor reads as closed when true and open when false.        *)
C21_DoorStatusResult ==
    [][ (pc = "call" /\ pc' = "returned" /\ input.sent)
        => IF input.status \notin 200..299
           THEN /\ ~output'.ok
                /\ output'.error = <<"HTTP error: ", input.status>>
           ELSE IF ~ValidDoorStatus(input.body)
                THEN ~output'.ok
                ELSE /\ output'.ok
                     /\ Unwrap(output'.value).state = Unwrap(input.body.state).b
                     /\ PollOp(Unwrap(output'.value).state)
                        = PollOp(IF Unwrap(input.body.state).b THEN Closed ELSE Open) ]_vars

C21_Witness ==
    /\ pc = "returned"
    /\ input.sent
    /\ input.status = 404
    /\ ValidDoorStatus(input.body)
    /\ output = Err(<<"HTTP error: ", 404>>)

(* Reading a formatted duration back: the number a run of digits writes,   *)
(* and the parts of "Dd hh:mm:ss" or "hh:mm:ss"                            *)
IsDigit(ch) == \E d \in 1..10 : Digits[d] = ch
DigitValue(ch) == (CHOOSE d \in 1..10 : Digits[d] = ch) - 1
RECURSIVE NumberOf(_)
NumberOf(chars) ==
    IF chars = <<>> THEN 0
    ELSE NumberOf(SubSeq(chars, 1, Len(chars) - 1)) * 10
         + DigitValue(chars[Len(chars)])
AllDigits(chars) == chars # <<>> /\ \A i \in DOMAIN chars : IsDigit(chars[i])

ClockOf(text) == SubSeq(text, Len(text) - 7, Len(text))
PrefixOf(text) == SubSeq(text, 1, Len(text) - 8)
IsClock(chars, hours, minutes, seconds) ==
    /\ Len(chars) = 8
    /\ chars[3] = ":" /\ chars[6] = ":"
    /\ AllDigits(SubSeq(chars, 1, 2)) /\ NumberOf(SubSeq(chars, 1, 2)) = hours
    /\ AllDigits(SubSeq(chars, 4, 5)) /\ NumberOf(SubSeq(chars, 4, 5)) = minutes
    /\ AllDigits(SubSeq(chars, 7, 8)) /\ NumberOf(SubSeq(chars, 7, 8)) = seconds
IsDayPrefix(chars, days) ==
    /\ Len(chars) >= 3
    /\ chars[Len(chars)] = " " /\ chars[Len(chars) - 1] = "d"
    /\ AllDigits(SubSeq(chars, 1, Len(chars) - 2))
    /\ chars[1] # "0"
    /\ NumberOf(SubSeq(chars, 1, Len(chars) - 2)) = days

(* C22: for a duration of t whole seconds the output of format_duration    *)
(* reads back as days = t div 86400, hours = (t mod 86400) div 3600 in     *)
(* 0..23, minutes = (t mod 3600) div 60 in 0..59 and seconds = t mod 60 in *)
(* 0..59, which add up to t; it starts with "<days>d " exactly when        *)
(* days > 0, so 0 s gives 00:00:00 and 86400 s gives 1d 00:00:00.          *)
C22_FormatDecomposes ==
    [][ (pc = "call" /\ pc' = "returned")
        => LET t == input.secs
               days == t \div 86400
               hours == (t % 86400) \div 3600
               minutes == (t % 3600) \div 60
               seconds == t % 60
           IN /\ Len(output') >= 8
              /\ IsClock(ClockOf(output'), hours, minutes, seconds)
              /\ hours \in 0..23 /\ minutes \in 0..59 /\ seconds \in 0..59
              /\ days * 86400 + hours * 3600 + minutes * 60 + seconds = t
              /\ IF days > 0
                 THEN IsDayPrefix(PrefixOf(output'), days)
                 ELSE PrefixOf(output') = <<>>
              /\ t = 0 => output' = <<"0", "0", ":", "0", "0", ":", "0", "0">>
              /\ t = 86400
                 => output' = <<"1", "d", " ", "0", "0", ":", "0", "0", ":", "0", "0">> ]_vars

C22_Witness ==
    /\ pc = "returned"
    /\ input.secs = 365 * 86400 + 12 * 3600 + 30 * 60 + 45
    /\ output = <<"3", "6", "5", "d", " ", "1", "2", ":", "3", "0", ":", "4", "5">>

SmsArgNames == {"sms_api_username", "sms_api_password",
                "sms_from_phone_number", "sms_to_phone_number"}
TelegramArgNames == {"telegram_token", "telegram_conversation_id"}
Incomplete(a, names) == \E f \in names : a[f] = None

(* C23: a send on a channel with an argument missing (any of the four SMS  *)
(* arguments for send_sms, the token or the conversation id for            *)
(* send_telegram) makes no request and returns Ok(()), whatever the        *)
(* network would have done.                                                *)
C23_MissingArgsNoOp ==
    [][ (pc = "call" /\ pc' = "returned")
        => /\ (output'.channel = "sms" /\ Incomplete(input.args, SmsArgNames))
              => (output'.requests = <<>> /\ output'.result = Ok(Unit))
           /\ (output'.channel = "telegram"
               /\ Incomplete(input.args, TelegramArgNames))
              => (output'.requests = <<>> /\ output'.result = Ok(Unit)) ]_vars

C23_Witness ==
    /\ pc = "returned"
    /\ output.channel = "sms"
    /\ input.args.sms_to_phone_number = None
    /\ \A f \in SmsArgNames \ {"sms_to_phone_number"} : IsSome(input.args[f])
    /\ ~input.net.sent
    /\ output = Sent("sms", Ok(Unit), <<>>)

IsAlertKind(kind) == kind \in {"ALERT", "REMINDER"}

(* The message at position i of l is the first open-too-long message since *)
(* the door was last reported closed                                       *)
FirstOfEpisode(l, i) ==
    ~\E j \in 1..(i - 1) :
        /\ IsAlertKind(l[j][1])
        /\ \A k \in j..i : l[k][1] # "DoorClosed"

(* C24: in backoff mode the first open-too-long message of an open episode *)
(* is sent while sms_sent is false and carries the ALERT text, every later *)
(* one of the same episode carries the REMINDER text, and after a close    *)
(* and reopen the first one is an ALERT again.                             *)
C24_AlertThenReminders ==
    /\ [](\A i \in DOMAIN log :
             /\ log[i][1] = "ALERT" => FirstOfEpisode(log, i)
             /\ log[i][1] = "REMINDER" => ~FirstOfEpisode(log, i))
    /\ [][ \A i \in DOMAIN ops' :
              /\ (ops'[i].op = "message" /\ ops'[i].what = "ALERT")
                 => ~state.sms_sent
              /\ (ops'[i].op = "message" /\ ops'[i].what = "REMINDER")
                 => state.sms_sent ]_vars

C24_Witness ==
    \E i \in DOMAIN log :
        /\ i + 4 = Len(log)
        /\ log[i][1] = "ALERT"
        /\ log[i + 1][1] = "REMINDER"
        /\ log[i + 2][1] = "DoorClosed"
        /\ log[i + 3][1] = "DoorOpened"
        /\ log[i + 4][1] = "ALERT"

(* The first poll, counted from the poll that sees the door open, at which *)
(* time_open has reached the threshold, for polls iv seconds apart         *)
FirstDueTick(th, iv) == (th + iv - 1) \div iv
AlertsOf(o) == SelectSeq(o, IsAlert)
OneFreshAlert(o) ==
    /\ Len(AlertsOf(o)) = 1
    /\ AlertsOf(o)[1].what = "ALERT"
    /\ AlertsOf(o)[1].idx = 0
(* What the close of the current episode, a reopen one interval later and  *)
(* the first check at or above the threshold do, under either policy, when *)
(* the episode being closed had the backoff fields b                       *)
C25_AfterReopen(b, single) ==
    LET a == [args EXCEPT !.no_sms_backoff = single]
        iv == a.check_interval_seconds
        k == FirstDueTick(a.open_too_long_seconds, iv)
        closed == handle_door_status(Ctx(WithBackoff(state, b)), Closed, a, now,
                                     SendsOk, SendsOk)
        opened == handle_door_status(Ctx(closed.state), Open, a, now + iv,
                                     SendsOk, SendsOk)
        due == IF k = 0 THEN opened
               ELSE handle_door_status(Ctx(opened.state), Open, a,
                                       now + iv + k * iv, SendsOk, SendsOk)
    IN /\ k > 0 => CountAlerts(opened.ops) = 0
       /\ OneFreshAlert(due.ops)

(* C25: backoff state does not carry over between open episodes: the first *)
(* check of an episode that sees time_open >= warning_threshold sends one  *)
(* alert at once, worded as the first alert and with sms_backoff_index 0   *)
(* before it, whatever the episode before left behind: for the alerts the  *)
(* run has really sent, and for every value of sms_sent, sms_backoff_index *)
(* and last_sms_time at the close.                                         *)
C25_NoCarryOver ==
    [][ /\ (/\ SawTooLong(ops')
            /\ (StartsEpisode(ops', state') \/ ~episode_due))
           => OneFreshAlert(ops')
        /\ (pc = "poll" /\ HasChange(ops', "Open->Closed"))
           => \A b \in BackoffProbe, single \in BOOLEAN :
                 C25_AfterReopen(b, single) ]_vars

C25_Witness ==
    /\ sms_backoff(args)
    /\ args.open_too_long_seconds = 15
    /\ prev_alerts >= 2
    /\ episode_alerts = 1
    /\ OneFreshAlert(ops)
    /\ ~StartsEpisode(ops, state)
    /\ now - Unwrap(state.door_opened_time) = args.check_interval_seconds

(* C26: a tick whose sample equals the last known state forms neither the  *)
(* opened nor the closed message and leaves door_opened_time,              *)
(* door_closed_time and last_door_state as they were; when that state is   *)
(* closed the tick does nothing but the poll: no message, no send, no      *)
(* write, and the monitor state is unchanged.                              *)
C26_SameSampleNoTransition ==
    [][ (/\ pc = "poll"
         /\ SuccessfulPoll(ops')
         /\ \E door_closed \in BOOLEAN :
               Sampled(ops', door_closed) /\ state.last_door_state = Some(door_closed))
        => /\ CountWhat(ops', "DoorOpened") = 0
           /\ CountWhat(ops', "DoorClosed") = 0
           /\ CountWhat(ops', "StartupStatus") = 0
           /\ NoChangeOp(ops')
           /\ state'.door_opened_time = state.door_opened_time
           /\ state'.door_closed_time = state.door_closed_time
           /\ state'.last_door_state = state.last_door_state
           /\ Sampled(ops', Closed)
              => (ops' = <<PollOp(Closed)>> /\ state' = state) ]_vars

C26_Witness ==
    /\ pc = "sleep"
    /\ ops = <<PollOp(Closed)>>
    /\ state.last_door_state = Some(Closed)
    /\ IsSome(state.door_closed_time)
    /\ now >= Unwrap(state.door_closed_time) + 2 * args.check_interval_seconds

(* C27: while the door stays open and the polls succeed, the first check   *)
(* that sees time_open >= warning_threshold comes and sends the alert; in  *)
(* backoff mode the reminders go on past the end of the interval list (the *)
(* runs with a 30 minute interval get there within MaxTicks sleeps), and   *)
(* they never stop: every open check past the threshold either sends or    *)
(* finds the last message less than 60 minutes old.                        *)
C27_AlertsKeepComing ==
    /\ <>(episode_alerts >= 1)
    /\ <>((sms_backoff(args) /\ args.check_interval_seconds = 1800)
          => state.sms_backoff_index > Len(sms_intervals))
    /\ [][ SawTooLong(ops')
           => /\ episode_alerts' >= 1
              /\ sms_backoff(args)
                 => \/ CountAlerts(ops') = 1
                    \/ /\ state'.sms_sent
                       /\ IsSome(state'.last_sms_time)
                       /\ now - Unwrap(state'.last_sms_time) < 60 * 60 ]_vars

C27_Witness ==
    /\ sms_backoff(args)
    /\ state.last_door_state = Some(Open)
    /\ state.sms_backoff_index = Len(sms_intervals) + 1
    /\ state.last_sms_time = Some(now)
    /\ \E i \in DOMAIN ops : IsAlert(ops[i]) /\ ops[i].idx = Len(sms_intervals)

SendsOn(o, channel) == SelectSeq(o, LAMBDA e : e.op = channel)

(* What the handler of this step does under the arguments a *)
StepUnder(a, door_closed, r1, r2) ==
    IF pc = "startup"
    THEN initial_status(Ctx(state), door_closed, a, now, r1)
    ELSE handle_door_status(Ctx(state), door_closed, a, now, r1, r2)

(* C28: the two channels are switched independently: with sms_off no SMS   *)
(* send is attempted for any message, with telegram_off no Telegram send,  *)
(* each message is sent at most once on each channel that is on, and       *)
(* flipping one flag leaves the sends of the other channel and the         *)
(* resulting state as they were.                                           *)
C28_ChannelsIndependent ==
    [][ SuccessfulPoll(ops')
        => /\ args.sms_off => SendsOn(ops', "send_sms") = <<>>
           /\ args.telegram_off => SendsOn(ops', "send_telegram") = <<>>
           /\ Len(SendsOn(ops', "send_sms")) <= Len(Messages(ops'))
           /\ Len(SendsOn(ops', "send_telegram")) <= Len(Messages(ops'))
           /\ \A i \in DOMAIN ops' :
                 ops'[i].op = "message" => BothTried(ops', i, args)
           /\ LET door_closed == ops'[1].what = "closed"
                   c == StepUnder(args, door_closed, SendsOk, SendsOk)
                   no_sms == StepUnder([args EXCEPT !.sms_off = ~@],
                                       door_closed, SendsOk, SendsOk)
                   no_tg == StepUnder([args EXCEPT !.telegram_off = ~@],
                                      door_closed, SendsOk, SendsOk)
              IN /\ SendsOn(no_sms.ops, "send_telegram")
                    = SendsOn(c.ops, "send_telegram")
                 /\ SendsOn(no_tg.ops, "send_sms") = SendsOn(c.ops, "send_sms")
                 /\ no_sms.state = c.state
                 /\ no_tg.state = c.state
                 /\ c.state = state' ]_vars

C28_Witness ==
    /\ args.sms_off
    /\ ~args.telegram_off
    /\ CountAlerts(ops) = 1
    /\ HasChange(ops, "Closed->Open")
    /\ Len(SendsOn(ops, "send_telegram")) = 2
    /\ SendsOn(ops, "send_sms") = <<>>

(* The writes of o that come after its first open-too-long message *)
WritesAfterAlert(o) ==
    {o[j].what : j \in {k \in DOMAIN o :
                          /\ o[k].op = "write"
                          /\ \E i \in 1..(k - 1) : IsAlert(o[i])}}

(* C29: in single-shot mode sms_backoff_index stays 0 and last_sms_time    *)
(* stays None in every state; an alert writes sms_sent and nothing else;   *)
(* and handle_single_sms called with sms_sent already true changes no      *)
(* field and sends nothing.                                                *)
C29_SingleShotSetsOnlyFlag ==
    /\ [](args.no_sms_backoff
          => (state.sms_backoff_index = 0 /\ state.last_sms_time = None))
    /\ [][ (args.no_sms_backoff /\ SuccessfulPoll(ops'))
           => /\ CountAlerts(ops') > 0
                 => /\ WritesAfterAlert(ops') = {"sms_sent"}
                    /\ ~state.sms_sent /\ state'.sms_sent
              /\ (state.sms_sent /\ Sampled(ops', Open))
                 => /\ state' = state
                    /\ \A i \in DOMAIN ops' : ops'[i].op \in {"poll", "too_long"}
                    /\ \A r \in Outcomes :
                          handle_single_sms(Ctx(state), args, 0, now, r) = Ctx(state) ]_vars

C29_Witness ==
    /\ args.no_sms_backoff
    /\ pc = "sleep"
    /\ BackoffFields(state) = <<TRUE, 0, None>>
    /\ Len(ops) = 2
    /\ ops[1] = PollOp(Open)
    /\ ops[2].op = "too_long"

(* C30: in every state whose last known door state is closed, sms_sent is  *)
(* false, sms_backoff_index is 0 and last_sms_time is None.                *)
C30_ClosedMeansReset ==
    state.last_door_state = Some(Closed)
    => /\ state.sms_sent = FALSE
       /\ state.sms_backoff_index = 0
       /\ state.last_sms_time = None

C30_Witness ==
    /\ state.last_door_state = Some(Closed)
    /\ HasChange(ops, "Open->Closed")
    /\ episode_alerts >= 2
    /\ sms_backoff(args)
    /\ BackoffAtInitial(state)

(* C31: once a sample has been received, door_opened_time is set exactly   *)
(* when the last known state is open and door_closed_time exactly when it  *)
(* is closed; so every Open->Closed transition finds door_opened_time set  *)
(* and forms the door-closed message.                                      *)
C31_TimesFollowLastState ==
    /\ [](state.last_door_state # None
          => /\ IsSome(state.door_opened_time) <=> state.last_door_state = Some(Open)
             /\ IsSome(state.door_closed_time) <=> state.last_door_state = Some(Closed))
    /\ [][ HasChange(ops', "Open->Closed")
           => /\ IsSome(state.door_opened_time)
              /\ CountWhat(ops', "DoorClosed") = 1 ]_vars

C31_Witness ==
    /\ pc = "sleep"
    /\ ticks = 0
    /\ HasChange(ops, "Open->Closed")
    /\ CountWhat(ops, "DoorClosed") = 1
    /\ state.door_closed_time = Some(0)
    /\ state.door_opened_time = None

LogHas(l, kind) == \E i \in DOMAIN l : l[i][1] = kind

RECURSIVE Kinds(_)
Kinds(o) == IF o = <<>> THEN <<>> ELSE <<o[1].what>> \o Kinds(Tail(o))

(* C34: a tick that observes Closed->Open runs the open-too-long check in  *)
(* the same tick, after the transition has been handled: with              *)
(* warning_threshold 0 it forms "Door has been opened" and then the first  *)
(* ALERT, for a time open of 0 and with index 0, and ends with sms_sent    *)
(* true.                                                                   *)
C34_OpenedAndAlertInOneTick ==
    [][ (/\ pc = "poll"
         /\ HasChange(ops', "Closed->Open")
         /\ args.open_too_long_seconds = 0)
        => /\ Kinds(Messages(ops')) = <<"DoorOpened", "ALERT">>
           /\ Messages(ops')[2].dur = 0
           /\ Messages(ops')[2].idx = 0
           /\ state'.sms_sent
           /\ state'.door_opened_time = Some(now)
           /\ \A i \in DOMAIN ops', j \in DOMAIN ops' :
                 (/\ ops'[i].op = "write"
                  /\ ops'[i].what \in {"door_opened_time", "last_door_state"}
                  /\ ops'[j].op = "too_long")
                 => i < j ]_vars

C34_Witness ==
    /\ pc = "sleep"
    /\ ticks >= 1
    /\ args.open_too_long_seconds = 0
    /\ HasChange(ops, "Closed->Open")
    /\ Kinds(Messages(ops)) = <<"DoorOpened", "ALERT">>
    /\ state.sms_sent
    /\ state.door_opened_time = Some(now)

(* C35: two runs that see the same samples at the same times under the     *)
(* same policy have the same MonitorState after every step, whatever their *)
(* sms_off and telegram_off and whatever the outcome of each send (which   *)
(* is all the channel arguments can change).                               *)
C35_StateIgnoresChannels ==
    output = state

C35_Witness ==
    /\ pc = "sleep"
    /\ ~args.sms_off /\ ~args.telegram_off
    /\ input.sms_off /\ input.telegram_off
    /\ sms_backoff(args)
    /\ output = state
    /\ state.sms_backoff_index = 2
    /\ state.last_sms_time = Some(now)
    /\ Len(SendsOn(ops, "send_sms")) = 1

(* C36: with both channels on, the SMS send of a message has returned      *)
(* (its outcome is known) before the Telegram send of that message starts, *)
(* the sends of a step come one after the other in the order of their      *)
(* messages, and the sleep is a step of its own that starts after the      *)
(* step holding the sends of the tick has ended.                           *)
C36_SmsThenTelegramThenSleep ==
    [][ /\ (~args.sms_off /\ ~args.telegram_off)
           => \A i \in DOMAIN ops' :
                 ops'[i].op = "message"
                 => /\ i + 2 <= Len(ops')
                    /\ ops'[i + 1].op = "send_sms"
                    /\ ops'[i + 1].what = ops'[i].what
                    /\ ops'[i + 1].ok \in BOOLEAN
                    /\ ops'[i + 2].op = "send_telegram"
                    /\ ops'[i + 2].what = ops'[i].what
        /\ \A j \in DOMAIN ops' :
              IsSend(ops'[j])
              => \E i \in 1..(j - 1) :
                    /\ ops'[i].op = "message"
                    /\ ops'[i].what = ops'[j].what
                    /\ \A k \in (i + 1)..(j - 1) : IsSend(ops'[k])
        /\ \A i \in DOMAIN ops' :
              ops'[i].op = "sleep"
              => /\ Len(ops') = 1
                 /\ pc = "sleep"
                 /\ IsPollStep(ops) ]_vars

C36_Witness ==
    /\ pc = "sleep"
    /\ ~args.sms_off /\ ~args.telegram_off
    /\ Len(ops) >= 10
    /\ Kinds(SelectSeq(ops, IsSend)) = <<"DoorOpened", "DoorOpened", "ALERT", "ALERT">>
    /\ SendsOn(ops, "send_sms")[1].ok = FALSE
    /\ \E i \in DOMAIN ops :
          /\ ops[i].op = "send_sms" /\ ops[i].what = "ALERT"
          /\ ops[i + 1].op = "send_telegram" /\ ops[i + 1].what = "ALERT"

(* C37: in the loop of main.rs a tick that observes Open->Closed sends the *)
(* door-closed SMS only if the alert of that episode had been sent         *)
(* (sms_sent true before the tick); the handling of Closed->Open sends     *)
(* nothing (there is no door-opened SMS; whatever such a tick sends is the *)
(* alert of the open-too-long check that follows it); an open episode has  *)
(* at most one ALERT; and every transition to closed leaves sms_sent       *)
(* false.                                                                  *)
C37_MainLoopMessages ==
    [][ SuccessfulPoll(ops')
        => /\ CountWhat(ops', "DoorClosed") > 0
              => /\ HasChange(ops', "Open->Closed")
                 /\ CountWhat(ops', "DoorClosed") = 1
                 /\ state.sms_sent
                 /\ episode_alerts = 1
           /\ CountWhat(ops', "DoorOpened") = 0
           /\ HasChange(ops', "Closed->Open")
              => \A i \in DOMAIN ops' :
                    ops'[i].op \in {"message", "send_sms"}
                    => /\ ops'[i].what = "ALERT"
                       /\ \E j \in 1..(i - 1) : ops'[j].op = "too_long"
           /\ episode_alerts' <= 1
           /\ CountWhat(ops', "REMINDER") = 0
           /\ (Sampled(ops', Closed) /\ ~NoChangeOp(ops')) => ~state'.sms_sent ]_vars

C37_Witness ==
    /\ pc = "sleep"
    /\ HasChange(ops, "Open->Closed")
    /\ CountWhat(ops, "DoorClosed") = 1
    /\ episode_alerts = 1
    /\ ~state.sms_sent
    /\ state.door_opened_time = None

(* C38: MonitorState::new gives the three Options None, sms_sent false and *)
(* sms_backoff_index 0; reset_sms_state sets sms_sent false,               *)
(* sms_backoff_index 0 and last_sms_time None from any values, leaves      *)
(* door_opened_time, door_closed_time and last_door_state as they were,    *)
(* and a second call changes nothing.                                      *)
C38_NewAndReset ==
    /\ [](pc = "new"
          => /\ state.door_opened_time = None
             /\ state.door_closed_time = None
             /\ state.last_door_state = None
             /\ state.sms_sent = FALSE
             /\ state.sms_backoff_index = 0
             /\ state.last_sms_time = None)
    /\ [](pc \in {"reset", "reset again"}
          => /\ state.sms_sent = FALSE
             /\ state.sms_backoff_index = 0
             /\ state.last_sms_time = None
             /\ state.door_opened_time = input.door_opened_time
             /\ state.door_closed_time = input.door_closed_time
             /\ state.last_door_state = input.last_door_state)
    /\ [][ (pc = "reset" /\ pc' = "reset again") => state' = state ]_vars

C38_Witness ==
    /\ pc = "reset again"
    /\ input.sms_sent
    /\ input.sms_backoff_index = 3
    /\ input.last_sms_time = Some(5)
    /\ input.door_opened_time = Some(0)
    /\ input.last_door_state = Some(Open)
    /\ state = [input EXCEPT !.sms_sent = FALSE,
                             !.sms_backoff_index = 0,
                             !.last_sms_time = None]

====
